---------------------------- MODULE Spec2Model ----------------------------
(***************************************************************************)
(* Model of src/src/secrets_rotation.py: the SecretsRotation object, the   *)
(* PostgreSQL roles it administers, and the two tables it writes           *)
(* (rotation_history, app_credentials).                                    *)
(*                                                                         *)
(* The connection is opened with autocommit = True (line 31), so every     *)
(* cursor.execute is its own transaction: a statement that raises leaves   *)
(* the effects of the statements before it in place.  Every statement may  *)
(* raise (backend or network error); it must raise when PostgreSQL rejects *)
(* it (unknown role, role that still holds privileges, name clash).        *)
(***************************************************************************)
EXTENDS Integers, Sequences, FiniteSets, TLC

\* ---------------------------------------------------------------- bounds
\* Number of passwords generate_strong_password may hand out in one run.
MaxGenerated == 2
\* Rows the app_credentials table may hold.
MaxRows == 2
\* Days the clock may advance.
MaxNow == 1
\* Cursors that may be left open (acquired, never closed).
MaxOpen == 2
\* Frames of generate_strong_password the interpreter's stack holds before
\* it raises RecursionError.
MaxDepth == 3
\* Statements that may raise although PostgreSQL would accept them (a lost
\* connection, a backend error).  A statement PostgreSQL rejects raises
\* whatever this bound is.
MaxFaults == 1

\* ------------------------------------------------------ program constants
\* run_demo: initial_password = "InitialPass123!", the only password that is
\* not produced by the generator.
InitialPassword == "InitialPass123!"
\* check_expired_credentials: INTERVAL '7 days'.
ScanHorizonDays == 7
\* schedule_rotation: days_until_expire = 90 unless the caller gives it.
DefaultDays == 90
\* The days_until_expire values the expiry tracker is exercised with.
ScheduleDays == {3, 30}

\* The horizons, in days, a caller of the expiry scan is interested in.
Horizons == {7, 60}

\* The user names create_app_user is called with: a service account, and an
\* account whose name is the first one's plus the suffix the dual rotation adds.
Usernames == {"svc", "svc_new"}
\* The user names the rotations and schedule_rotation are called with.
Rotated == {"svc"}

\* rotate_with_dual_password: temp_user = f"{username}_new".
TempUser(username) == username \o "_new"

\* The privileges create_app_user and the dual rotation grant, in GRANT order.
AllGrants == {"connect", "usage", "tables"}

VARIABLES
    conn,              \* self.conn is not None
    tables,            \* rotation_history / app_credentials exist (setup)
    users,             \* backend roles: name -> [password, grants]
    history,           \* rows of table rotation_history, in insertion order
    rotation_history,  \* self.rotation_history (in memory)
    app_credentials,   \* rows of table app_credentials, in insertion order
    now,               \* the clock, in days
    generated,         \* passwords generated so far
    open_cursors,      \* cursors acquired and not closed
    faults,            \* statements that raised without being rejected
    pc,                \* position of the method in progress
    cur,               \* its arguments and locals
    pre,               \* the state when it was called
    ret                \* what it returned or raised

vars == <<conn, tables, users, history, rotation_history, app_credentials,
          now, generated, open_cursors, faults, pc, cur, pre, ret>>

\* ------------------------------------------------- the backend's statements
\* A statement sent with cursor.execute, as a record.  Fields a statement
\* does not use hold a fixed filler.
Stmt(op, name, password, grant, to) ==
    [op |-> op, name |-> name, password |-> password, grant |-> grant, to |-> to]

DropUserIfExists(name) == Stmt("drop_if_exists", name, "", "", "")
CreateUser(name, password) == Stmt("create", name, password, "", "")
GrantStmt(name, grant) == Stmt("grant", name, "", grant, "")
RevokeStmt(name, grant) == Stmt("revoke", name, "", grant, "")
DropUser(name) == Stmt("drop", name, "", "", "")
RenameUser(name, to) == Stmt("rename", name, "", "", to)
AlterPassword(name, password) == Stmt("alter", name, password, "", "")

Exists(u, name) == name \in DOMAIN u

\* A backend whose DROP USER IF EXISTS removes a role that holds privileges.
AcceptsDropOfGrantee(u, s) ==
    CASE s.op = "drop_if_exists" -> TRUE
      [] s.op = "create" -> ~Exists(u, s.name)
      [] s.op = "grant" -> Exists(u, s.name)
      [] s.op = "revoke" -> Exists(u, s.name)
      [] s.op = "drop" -> Exists(u, s.name) /\ u[s.name].grants = {}
      [] s.op = "rename" -> Exists(u, s.name) /\ ~Exists(u, s.to)
      [] s.op = "alter" -> Exists(u, s.name)

\* PostgreSQL accepts the statement in backend state u.  A role that still
\* holds privileges cannot be dropped ("some objects depend on it"), which is
\* why the dual rotation revokes before it drops.
Accepts(u, s) ==
    CASE s.op = "drop_if_exists" -> Exists(u, s.name) => u[s.name].grants = {}
      [] s.op = "create" -> ~Exists(u, s.name)
      [] s.op = "grant" -> Exists(u, s.name)
      [] s.op = "revoke" -> Exists(u, s.name)
      [] s.op = "drop" -> Exists(u, s.name) /\ u[s.name].grants = {}
      [] s.op = "rename" -> Exists(u, s.name) /\ ~Exists(u, s.to)
      [] s.op = "alter" -> Exists(u, s.name)

Without(u, name) == [n \in DOMAIN u \ {name} |-> u[n]]

With(u, name, role) ==
    [n \in DOMAIN u \cup {name} |-> IF n = name THEN role ELSE u[n]]

\* The backend state after an accepted statement.
Exec(u, s) ==
    CASE s.op = "drop_if_exists" -> Without(u, s.name)
      [] s.op = "create" ->
            With(u, s.name, [password |-> s.password, grants |-> {}])
      [] s.op = "grant" ->
            With(u, s.name, [u[s.name] EXCEPT !.grants = @ \cup {s.grant}])
      [] s.op = "revoke" ->
            With(u, s.name, [u[s.name] EXCEPT !.grants = @ \ {s.grant}])
      [] s.op = "drop" -> Without(u, s.name)
      [] s.op = "rename" -> With(Without(u, s.name), s.to, u[s.name])
      [] s.op = "alter" ->
            With(u, s.name, [u[s.name] EXCEPT !.password = s.password])

\* DROP USER IF EXISTS; CREATE USER; GRANT CONNECT; GRANT USAGE; GRANT ... ON
\* ALL TABLES: the same five statements in create_app_user and in step 1 of
\* the dual rotation.
CreateStmts(name, password) ==
    << DropUserIfExists(name),
       CreateUser(name, password),
       GrantStmt(name, "connect"),
       GrantStmt(name, "usage"),
       GrantStmt(name, "tables") >>

\* A retire sequence that stops after DROP USER.
RetireStmtsNoRename(username, temp_user) ==
    << RevokeStmt(username, "tables"),
       RevokeStmt(username, "connect"),
       RevokeStmt(username, "usage"),
       DropUser(username) >>

\* Step 4 of the dual rotation: three REVOKEs, DROP USER, ALTER USER RENAME.
RetireStmts(username, temp_user) ==
    << RevokeStmt(username, "tables"),
       RevokeStmt(username, "connect"),
       RevokeStmt(username, "usage"),
       DropUser(username),
       RenameUser(temp_user, username) >>

\* The backend state after the first k statements of ss, each accepted.
RECURSIVE ExecFirst(_, _, _)
ExecFirst(u, ss, k) ==
    IF k = 0 THEN u ELSE Exec(ExecFirst(u, ss, k - 1), ss[k])

\* Each of the first k statements of ss is accepted in its turn.
AcceptsFirst(u, ss, k) ==
    \A i \in 1..k : Accepts(ExecFirst(u, ss, i - 1), ss[i])

\* ------------------------------------------------------------ bookkeeping
NoCall ==
    [op |-> "none", username |-> "", temp_user |-> "", new_password |-> "",
     verify |-> FALSE, step |-> 0, horizon |-> 0]

NoSnapshot ==
    [users |-> <<>>, history |-> <<>>, app_credentials |-> <<>>,
     open_cursors |-> 0]

Snapshot ==
    [users |-> users, history |-> history, app_credentials |-> app_credentials,
     open_cursors |-> open_cursors]

NoReturn == [value |-> "none", at |-> "", rows |-> <<>>]

Returned(value, at) == [value |-> value, at |-> at, rows |-> <<>>]

\* cursor.execute(...) returns: PostgreSQL accepted the statement.
Succeeds(accepted) == accepted /\ UNCHANGED faults

\* cursor.execute(...) raises: PostgreSQL rejected the statement, or the
\* statement failed for a reason of the backend's own.
Raises(accepted) ==
    \/ ~accepted /\ UNCHANGED faults
    \/ accepted /\ faults < MaxFaults /\ faults' = faults + 1

\* __init__: no connection, an empty in-memory history.  The database is a
\* fresh one: no application role, no table.
Init ==
    /\ conn = FALSE
    /\ tables = FALSE
    /\ users = <<>>
    /\ history = <<>>
    /\ rotation_history = <<>>
    /\ app_credentials = <<>>
    /\ now = 0
    /\ generated = 0
    /\ open_cursors = 0
    /\ faults = 0
    /\ pc = "idle"
    /\ cur = NoCall
    /\ pre = NoSnapshot
    /\ ret = NoReturn

\* A method may be called: the object is connected, no method is running,
\* and the bound on open cursors leaves room for cursor = self.conn.cursor().
Callable == conn /\ pc = "idle" /\ open_cursors < MaxOpen

\* connect(): a failed connection leaves self.conn as it was.
Connect ==
    /\ pc = "idle"
    /\ ~conn
    /\ conn' = TRUE
    /\ UNCHANGED <<tables, users, history, rotation_history, app_credentials,
                   now, generated, open_cursors, faults, pc, cur, pre, ret>>

\* Time passes between calls.
Tick ==
    /\ pc = "idle"
    /\ now < MaxNow
    /\ now' = now + 1
    /\ UNCHANGED <<conn, tables, users, history, rotation_history,
                   app_credentials, generated, open_cursors, faults, pc, cur,
                   pre, ret>>

\* The caller takes the result; the method's locals are gone.
Return ==
    /\ pc = "done"
    /\ pc' = "idle"
    /\ cur' = NoCall
    /\ pre' = NoSnapshot
    /\ ret' = NoReturn
    /\ UNCHANGED <<conn, tables, users, history, rotation_history,
                   app_credentials, now, generated, open_cursors, faults>>

\* setup(): CREATE TABLE IF NOT EXISTS keeps existing tables and their rows.
\* The execute is not guarded: when it raises, cursor.close() is skipped.
Setup ==
    /\ Callable
    /\ \/ /\ Succeeds(TRUE)
          /\ tables' = TRUE
          /\ UNCHANGED open_cursors
       \/ /\ Raises(TRUE)
          /\ open_cursors' = open_cursors + 1
          /\ UNCHANGED tables
    /\ UNCHANGED <<conn, users, history, rotation_history, app_credentials,
                   now, generated, pc, cur, pre, ret>>

\* create_app_user(username, initial_password): the five statements run in
\* one try block; the first one that raises ends the block, the exception is
\* logged, and the cursor is closed either way.
CreateAppUser(username, initial_password) ==
    /\ Callable
    /\ LET ss == CreateStmts(username, initial_password) IN
       \E k \in 0..Len(ss) :
          /\ AcceptsFirst(users, ss, k)
          /\ users' = ExecFirst(users, ss, k)
          /\ IF k = Len(ss)
             THEN Succeeds(TRUE)
             ELSE Raises(Accepts(ExecFirst(users, ss, k), ss[k + 1]))
    /\ UNCHANGED <<conn, tables, history, rotation_history, app_credentials,
                   now, generated, open_cursors, pc, cur, pre, ret>>

\* ------------------------------------------------------- rotate_password
\* generate_strong_password draws 32 characters from a 70-letter alphabet
\* with secrets.choice: its result is a string no earlier call returned and
\* different from the fixed initial password.  The n-th call returns the
\* string "generated-n".
FreshPassword(count) == "generated-" \o ToString(count + 1)

\* A row of table rotation_history (rotation_id is the row's position,
\* rotation_date defaults to NOW()).
HistoryRow(username, rotation_type, status, notes) ==
    [username |-> username, rotation_date |-> now,
     rotation_type |-> rotation_type, status |-> status, notes |-> notes]

\* An audit row whose note carries the password that was set.
SingleRowWithPassword(username) ==
    HistoryRow(username, "password_rotation", "success",
               "Password rotated to " \o cur.new_password)

\* INSERT INTO rotation_history ... at the end of rotate_password.
SingleRow(username) ==
    HistoryRow(username, "password_rotation", "success",
               "Password rotated at " \o ToString(now))

\* INSERT INTO rotation_history ... at the end of rotate_with_dual_password.
DualRow(username) ==
    HistoryRow(username, "dual_password_rotation", "success",
               "Zero-downtime rotation complete")

\* self.rotation_history.append({...}) in rotate_password.
MemoryEntry(username) ==
    [username |-> username, timestamp |-> now, status |-> "success"]

\* An INSERT that replaces the table's rows.
InsertedAlone(rows, row) == <<row>>

\* INSERT INTO rotation_history: the table with the row added.
Inserted(rows, row) == Append(rows, row)

\* Lines 104-110: open a cursor, generate the new password.
BeginSingle(username, simulate_app_update) ==
    /\ Callable
    /\ generated < MaxGenerated
    /\ generated' = generated + 1
    /\ open_cursors' = open_cursors + 1
    /\ cur' = [op |-> "rotate_password", username |-> username,
               temp_user |-> "", new_password |-> FreshPassword(generated),
               verify |-> simulate_app_update, step |-> 0, horizon |-> 0]
    /\ pre' = Snapshot
    /\ pc' = "alter"
    /\ UNCHANGED <<conn, tables, users, history, rotation_history,
                   app_credentials, now, faults, ret>>

\* A guarded statement whose failure is logged and the rotation goes on.
SwallowedFailure(at) ==
    /\ UNCHANGED <<open_cursors, ret>>
    /\ pc' = "record"

\* What the method does when a guarded statement raised: cursor.close() and
\* return False.  Nothing is written to rotation_history.
CaughtFailure(at) ==
    /\ open_cursors' = open_cursors - 1
    /\ ret' = Returned("False", at)
    /\ pc' = "done"

\* An unguarded statement handled like a guarded one.
UncaughtAsCaught(at) ==
    /\ open_cursors' = open_cursors - 1
    /\ ret' = Returned("False", at)
    /\ pc' = "done"

\* What happens when an unguarded statement raised: the exception leaves the
\* method, past cursor.close() and past the code that records the rotation.
Uncaught(at) ==
    /\ UNCHANGED open_cursors
    /\ ret' = Returned("raised", at)
    /\ pc' = "done"

\* Step 2 (lines 112-119): ALTER USER ... WITH PASSWORD.
SingleAlter ==
    /\ pc = "alter"
    /\ LET s == AlterPassword(cur.username, cur.new_password) IN
       \/ /\ Succeeds(Accepts(users, s))
          /\ users' = Exec(users, s)
          /\ pc' = IF cur.verify THEN "verify" ELSE "record"
          /\ UNCHANGED <<open_cursors, ret>>
       \/ /\ Raises(Accepts(users, s))
          /\ CaughtFailure("alter")
          /\ UNCHANGED users
    /\ UNCHANGED <<conn, tables, history, rotation_history, app_credentials,
                   now, generated, cur, pre>>

\* psycopg2.connect(user=username, password=new_password) can succeed.
Authenticates(u, username, password) ==
    Exists(u, username) /\ u[username].password = password

\* Steps 3-4 (lines 121-137): the test connection with the new password.
SingleVerify ==
    /\ pc = "verify"
    /\ \/ /\ Succeeds(Authenticates(users, cur.username, cur.new_password))
          /\ pc' = "record"
          /\ UNCHANGED <<open_cursors, ret>>
       \/ /\ Raises(Authenticates(users, cur.username, cur.new_password))
          /\ CaughtFailure("verify")
    /\ UNCHANGED <<conn, tables, users, history, rotation_history,
                   app_credentials, now, generated, cur, pre>>

\* Lines 139-156: the INSERT, the in-memory append, close, return True.
SingleRecord ==
    /\ pc = "record"
    /\ \/ /\ Succeeds(tables)
          /\ history' = Inserted(history, SingleRow(cur.username))
          /\ rotation_history' = Append(rotation_history, MemoryEntry(cur.username))
          /\ open_cursors' = open_cursors - 1
          /\ ret' = Returned("True", "")
          /\ pc' = "done"
       \/ /\ Raises(tables)
          /\ Uncaught("insert")
          /\ UNCHANGED <<history, rotation_history>>
    /\ UNCHANGED <<conn, tables, users, app_credentials, now, generated, cur, pre>>

\* --------------------------------------------- rotate_with_dual_password
\* Lines 161-167: open a cursor, name the temporary user, generate.
BeginDual(username) ==
    /\ Callable
    /\ generated < MaxGenerated
    /\ generated' = generated + 1
    /\ open_cursors' = open_cursors + 1
    /\ cur' = [op |-> "rotate_with_dual_password", username |-> username,
               temp_user |-> TempUser(username),
               new_password |-> FreshPassword(generated),
               verify |-> FALSE, step |-> 1, horizon |-> 0]
    /\ pre' = Snapshot
    /\ pc' = "shadow"
    /\ UNCHANGED <<conn, tables, users, history, rotation_history,
                   app_credentials, now, faults, ret>>

\* A shadow user that is created but granted nothing on the tables.
ShadowStmtsNoTableGrant(temp_user, new_password) ==
    SubSeq(CreateStmts(temp_user, new_password), 1, 4)

\* The statements of step 1: the temporary user is created like an
\* application user, with the new password.
ShadowStmts(temp_user, new_password) == CreateStmts(temp_user, new_password)

\* Step 1 (lines 169-180): one statement of the guarded block per step.
DualShadow ==
    /\ pc = "shadow"
    /\ LET ss == ShadowStmts(cur.temp_user, cur.new_password) IN
       \/ /\ Succeeds(Accepts(users, ss[cur.step]))
          /\ users' = Exec(users, ss[cur.step])
          /\ IF cur.step < Len(ss)
             THEN /\ cur' = [cur EXCEPT !.step = @ + 1]
                  /\ pc' = "shadow"
             ELSE /\ cur' = [cur EXCEPT !.step = 1]
                  /\ pc' = "retire"
          /\ UNCHANGED <<open_cursors, ret>>
       \/ /\ Raises(Accepts(users, ss[cur.step]))
          /\ CaughtFailure(ss[cur.step].op)
          /\ UNCHANGED <<users, cur>>
    /\ UNCHANGED <<conn, tables, history, rotation_history, app_credentials,
                   now, generated, pre>>

\* Step 4 (lines 190-195): one statement per step, none of them guarded.
DualRetire ==
    /\ pc = "retire"
    /\ LET ss == RetireStmts(cur.username, cur.temp_user) IN
       \/ /\ Succeeds(Accepts(users, ss[cur.step]))
          /\ users' = Exec(users, ss[cur.step])
          /\ IF cur.step < Len(ss)
             THEN /\ cur' = [cur EXCEPT !.step = @ + 1]
                  /\ pc' = "retire"
             ELSE /\ cur' = [cur EXCEPT !.step = 0]
                  /\ pc' = "record_dual"
          /\ UNCHANGED <<open_cursors, ret>>
       \/ /\ Raises(Accepts(users, ss[cur.step]))
          /\ Uncaught(ss[cur.step].op)
          /\ UNCHANGED <<users, cur>>
    /\ UNCHANGED <<conn, tables, history, rotation_history, app_credentials,
                   now, generated, pre>>

\* A rotation that also renews the user's expiry schedule when it succeeds.
DualRecordRescheduling ==
    /\ pc = "record_dual"
    /\ \/ /\ Succeeds(tables)
          /\ history' = Inserted(history, DualRow(cur.username))
          /\ app_credentials' =
                Append(app_credentials,
                       [cred_id |-> Len(app_credentials) + 1,
                        service_name |-> "database", username |-> cur.username,
                        expires_at |-> now + DefaultDays])
          /\ open_cursors' = open_cursors - 1
          /\ ret' = Returned("True", "")
          /\ pc' = "done"
       \/ /\ Raises(tables)
          /\ Uncaught("insert")
          /\ UNCHANGED <<history, app_credentials>>
    /\ UNCHANGED <<conn, tables, users, rotation_history, now, generated,
                   cur, pre>>

\* Lines 197-208: the INSERT, close, return True.
DualRecord ==
    /\ pc = "record_dual"
    /\ \/ /\ Succeeds(tables)
          /\ history' = Inserted(history, DualRow(cur.username))
          /\ open_cursors' = open_cursors - 1
          /\ ret' = Returned("True", "")
          /\ pc' = "done"
       \/ /\ Raises(tables)
          /\ Uncaught("insert")
          /\ UNCHANGED history
    /\ UNCHANGED <<conn, tables, users, rotation_history, app_credentials,
                   now, generated, cur, pre>>

\* ------------------------------------------------------ schedule and scan
\* The row schedule_rotation inserts: cred_id is the next value of the
\* table's SERIAL, expires_at = datetime.now() + timedelta(days).
CredentialRow(rows, username, days_until_expire) ==
    [cred_id |-> Len(rows) + 1, service_name |-> "database",
     username |-> username, expires_at |-> now + days_until_expire]

\* ON CONFLICT: the row clashes with a row of the table on a unique index.
\* setup declares one, the primary key cred_id.
Conflicts(rows, row) == \E i \in 1..Len(rows) : rows[i].cred_id = row.cred_id

\* INSERT INTO app_credentials ... ON CONFLICT DO NOTHING.
InsertCredential(rows, row) ==
    IF Conflicts(rows, row) THEN rows ELSE Append(rows, row)

\* schedule_rotation(username, days_until_expire): the execute is not guarded.
ScheduleRotation(username, days_until_expire) ==
    /\ Callable
    /\ Len(app_credentials) < MaxRows
    /\ \/ /\ Succeeds(tables)
          /\ app_credentials' =
                InsertCredential(app_credentials,
                    CredentialRow(app_credentials, username, days_until_expire))
          /\ UNCHANGED open_cursors
       \/ /\ Raises(tables)
          /\ open_cursors' = open_cursors + 1
          /\ UNCHANGED app_credentials
    /\ UNCHANGED <<conn, tables, users, history, rotation_history, now,
                   generated, pc, cur, pre, ret>>

\* A filter that forgets the interval: only rows already expired.
ExpiredOnly(row) == row.expires_at < now

\* WHERE expires_at < NOW() + INTERVAL '7 days'
ExpiringSoon(row) == row.expires_at < now + ScanHorizonDays

\* SELECT username, expires_at FROM app_credentials WHERE ...
RECURSIVE SelectExpired(_)
SelectExpired(rows) ==
    IF rows = <<>> THEN <<>>
    ELSE LET rest == SelectExpired(Tail(rows)) IN
         IF ExpiringSoon(Head(rows))
         THEN <<<<Head(rows).username, Head(rows).expires_at>>>> \o rest
         ELSE rest

\* check_expired_credentials(): returns the rows selected.  The method has
\* no parameter: the horizon its caller is interested in is kept with the
\* call, and nothing of the method reads it.
CheckExpiredCredentials(horizon) ==
    /\ Callable
    /\ cur' = [NoCall EXCEPT !.op = "check_expired_credentials",
                             !.horizon = horizon]
    /\ pc' = "done"
    /\ \/ /\ Succeeds(tables)
          /\ ret' = [value |-> "rows", at |-> "",
                     rows |-> SelectExpired(app_credentials)]
          /\ UNCHANGED open_cursors
       \/ /\ Raises(tables)
          /\ ret' = Returned("raised", "select")
          /\ open_cursors' = open_cursors + 1
    /\ UNCHANGED <<conn, tables, users, history, rotation_history,
                   app_credentials, now, generated, pre>>

\* SELECT username, rotation_date, rotation_type, status FROM rotation_history
\* ORDER BY rotation_date DESC: rows are inserted with non-decreasing dates,
\* so the newest-first order is the reverse of the insertion order.
ReportRows(rows) ==
    [i \in 1..Len(rows) |->
        LET r == rows[Len(rows) + 1 - i] IN
        <<r.username, r.rotation_date, r.rotation_type, r.status>>]

\* print_rotation_report(): prints the rows; the table is only read.
PrintRotationReport ==
    /\ Callable
    /\ cur' = [NoCall EXCEPT !.op = "print_rotation_report"]
    /\ pc' = "done"
    /\ \/ /\ Succeeds(tables)
          /\ ret' = [value |-> "None", at |-> "", rows |-> ReportRows(history)]
          /\ UNCHANGED open_cursors
       \/ /\ Raises(tables)
          /\ ret' = Returned("raised", "select")
          /\ open_cursors' = open_cursors + 1
    /\ UNCHANGED <<conn, tables, users, history, rotation_history,
                   app_credentials, now, generated, pre>>

\* ------------------------------------------------------ the specifications
\* The whole object: every method, called in any order with the default
\* expiry, at one instant.
Next ==
    \/ Connect
    \/ Return
    \/ Setup
    \/ \E username \in Usernames : CreateAppUser(username, InitialPassword)
    \/ \E username \in Rotated, simulate_app_update \in BOOLEAN :
          BeginSingle(username, simulate_app_update)
    \/ SingleAlter
    \/ SingleVerify
    \/ SingleRecord
    \/ \E username \in Rotated : BeginDual(username)
    \/ DualShadow
    \/ DualRetire
    \/ DualRecord
    \/ \E username \in Rotated : ScheduleRotation(username, DefaultDays)
    \/ \E horizon \in Horizons : CheckExpiredCredentials(horizon)
    \/ PrintRotationReport

Spec == Init /\ [][Next]_vars

\* The expiry tracker: schedules with several expiries for several users,
\* scans, and the passing of time.
NextSched ==
    \/ Connect
    \/ Return
    \/ Setup
    \/ Tick
    \/ \E username \in Usernames, days \in ScheduleDays :
          ScheduleRotation(username, days)
    \/ \E horizon \in Horizons : CheckExpiredCredentials(horizon)

SpecSched == Init /\ [][NextSched]_vars

\* ----------------------------------------------- generate_strong_password
\* One character of each kind of the alphabet string.ascii_letters +
\* string.digits + "!@#$%^&*", and a second symbol.
Alphabet == {"a", "Z", "7", "!", "*"}

\* The lengths the generator is called with: too short for the four kinds,
\* the documented minimum, and the default length=32.
Lengths == {3, 12, 32}

\* c.islower(), c.isupper(), c.isdigit(), c in "!@#$%^&*"
IsLower(c) == c = "a"
IsUpper(c) == c = "Z"
IsDigit(c) == c = "7"
IsSpecial(c) == c \in {"!", "*"}

\* A check that is satisfied by any one kind of character.
HasAnyType(chars) ==
    \/ \E c \in chars : IsLower(c)
    \/ \E c \in chars : IsUpper(c)
    \/ \E c \in chars : IsDigit(c)
    \/ \E c \in chars : IsSpecial(c)

\* has_lower and has_upper and has_digit and has_special, each an any(...)
\* over the characters of the password.
HasRequiredTypes(chars) ==
    /\ \E c \in chars : IsLower(c)
    /\ \E c \in chars : IsUpper(c)
    /\ \E c \in chars : IsDigit(c)
    /\ \E c \in chars : IsSpecial(c)

\* generate_strong_password(length) is called.  Of the password only its
\* length and the set of its characters are kept: the checks are any(...)
\* over the characters and read nothing else.
GenCall(length) ==
    /\ pc = "idle"
    /\ pc' = "sample"
    /\ cur' = [op |-> "generate_strong_password", length |-> length,
               count |-> 0, chars |-> {}, depth |-> 1]
    /\ UNCHANGED <<conn, tables, users, history, rotation_history,
                   app_credentials, now, generated, open_cursors, faults,
                   pre, ret>>

\* secrets.choice(alphabet) for i in range(length): the next character.
GenSample ==
    /\ pc = "sample"
    /\ cur.count < cur.length
    /\ \E c \in Alphabet :
          cur' = [cur EXCEPT !.count = @ + 1, !.chars = @ \cup {c}]
    /\ UNCHANGED <<conn, tables, users, history, rotation_history,
                   app_credentials, now, generated, open_cursors, faults,
                   pc, pre, ret>>

\* Lines 68-78: return the password when it has the four kinds; otherwise
\* call generate_strong_password(length) again, one frame deeper.  The
\* call that finds no room on the stack raises RecursionError.
GenCheck ==
    /\ pc = "sample"
    /\ cur.count = cur.length
    /\ \/ /\ HasRequiredTypes(cur.chars)
          /\ ret' = [value |-> "password", at |-> "", rows |-> <<>>,
                     length |-> cur.count, chars |-> cur.chars]
          /\ pc' = "done"
          /\ UNCHANGED cur
       \/ /\ ~HasRequiredTypes(cur.chars)
          /\ cur.depth < MaxDepth
          /\ cur' = [cur EXCEPT !.count = 0, !.chars = {}, !.depth = @ + 1]
          /\ UNCHANGED <<pc, ret>>
       \/ /\ ~HasRequiredTypes(cur.chars)
          /\ cur.depth = MaxDepth
          /\ ret' = Returned("raised", "RecursionError")
          /\ pc' = "done"
          /\ UNCHANGED cur
    /\ UNCHANGED <<conn, tables, users, history, rotation_history,
                   app_credentials, now, generated, open_cursors, faults, pre>>

\* The generator alone, called with each length.
NextGen ==
    \/ \E length \in Lengths : GenCall(length)
    \/ GenSample
    \/ GenCheck
    \/ Return

SpecGen == Init /\ [][NextGen]_vars

\* ============================================================== properties
IsPrefix(s, t) == Len(s) <= Len(t) /\ SubSeq(t, 1, Len(s)) = s

Rotations == {"rotate_password", "rotate_with_dual_password"}

\* A rotation attempt has ended (returned or raised) and its result stands.
AttemptEnded(op) == pc = "done" /\ cur.op = op

\* The attempt added exactly one row to rotation_history, with this status.
AddedOneRecord(status) ==
    /\ Len(history) = Len(pre.history) + 1
    /\ SubSeq(history, 1, Len(pre.history)) = pre.history
    /\ history[Len(history)].username = cur.username
    /\ history[Len(history)].status = status

\* The role exists and holds every privilege an application user is granted.
Usable(u, name) == Exists(u, name) /\ u[name].grants = AllGrants

\* C1: every rotation attempt, single or dual, whether it succeeds or fails
\* and whichever step fails, adds exactly one record to rotation_history.
C1_OneRecordPerAttempt ==
    (pc = "done" /\ cur.op \in Rotations) =>
        Len(history) = Len(pre.history) + 1

\* C2: during a dual rotation of p that started with p usable (existing,
\* with its password and all its grants), in every state of the attempt,
\* between any two statements and after a failure, p or p_new is usable:
\* p with its old or the new password, or p_new with the new password.
C2_NeverWithoutCredential ==
    (cur.op = "rotate_with_dual_password" /\ Usable(pre.users, cur.username)) =>
        \/ /\ Usable(users, cur.username)
           /\ users[cur.username].password \in
                 {pre.users[cur.username].password, cur.new_password}
        \/ /\ Usable(users, cur.temp_user)
           /\ users[cur.temp_user].password = cur.new_password

\* C2 witness: the old user is dropped and the rename has not happened yet;
\* only the shadow user carries the credential.
C2_Witness ==
    /\ cur.op = "rotate_with_dual_password"
    /\ Usable(pre.users, cur.username)
    /\ pc = "retire"
    /\ ~Exists(users, cur.username)
    /\ Usable(users, cur.temp_user)

\* C3: a dual rotation of p that returns True leaves no p_new, p
\* authenticates with the new password and no longer with the old one, and
\* exactly one success record was added to rotation_history.
C3_DualSuccess ==
    (AttemptEnded("rotate_with_dual_password") /\ ret.value = "True") =>
        /\ ~Exists(users, cur.temp_user)
        /\ Authenticates(users, cur.username, cur.new_password)
        /\ Exists(pre.users, cur.username)
        /\ ~Authenticates(users, cur.username, pre.users[cur.username].password)
        /\ AddedOneRecord("success")

\* C3 witness: a dual rotation returned True.
C3_Witness ==
    /\ AttemptEnded("rotate_with_dual_password")
    /\ ret.value = "True"
    /\ Usable(users, cur.username)

\* C4: when ALTER USER fails in a single rotation of a user, its password is
\* the one it had before and exactly one failed record was added.
C4_AlterFailureRecorded ==
    (AttemptEnded("rotate_password") /\ ret.at = "alter"
        /\ Exists(pre.users, cur.username)) =>
        /\ users = pre.users
        /\ AddedOneRecord("failed")

\* C5: when a statement of the retire sequence (revoke, drop, rename) fails
\* in the dual rotation of an existing p, the attempt ends with exactly one
\* failed record that names the failed step as a partial rotation; after a
\* failed revoke both p and p_new exist.
C5_RetireFailureRecorded ==
    (AttemptEnded("rotate_with_dual_password")
        /\ ret.at \in {"revoke", "drop", "rename"}
        /\ Exists(pre.users, cur.username)) =>
        /\ AddedOneRecord("failed")
        /\ history[Len(history)].notes = "PartialRotation: " \o ret.at
        /\ ret.at = "revoke" =>
              Exists(users, cur.username) /\ Exists(users, cur.temp_user)

\* C6: when the test connection of a single rotation fails, a failed record
\* is written and the user's password is the new one (no rollback).
C6_VerifyFailureRecorded ==
    (AttemptEnded("rotate_password") /\ ret.at = "verify") =>
        /\ AddedOneRecord("failed")
        /\ Authenticates(users, cur.username, cur.new_password)

\* C7: when the creation of the shadow user fails at any statement (drop if
\* exists, create, a grant), p is untouched: it exists as before with the
\* same password and grants, so no revoke, drop or rename was applied.
C7_OriginalUntouched ==
    (AttemptEnded("rotate_with_dual_password") /\ ret.value = "False") =>
        /\ Exists(users, cur.username) = Exists(pre.users, cur.username)
        /\ Exists(users, cur.username) =>
              users[cur.username] = pre.users[cur.username]

\* C7 witness: a grant to the shadow user failed while p exists with grants.
C7_Witness ==
    /\ AttemptEnded("rotate_with_dual_password")
    /\ ret.value = "False"
    /\ ret.at = "grant"
    /\ Usable(users, cur.username)

\* C8: a dual rotation of p that fails while creating the shadow user leaves
\* the backend as it was: the same users, passwords and grants, no p_new.
C8_CleanAbort ==
    (AttemptEnded("rotate_with_dual_password") /\ ret.value = "False"
        /\ Exists(pre.users, cur.username)) =>
        users = pre.users

\* C9: after any sequence of schedule_rotation calls each user has at most
\* one row in app_credentials (the one the first call set).
C9_SetIfAbsent ==
    \A i, j \in 1..Len(app_credentials) :
        app_credentials[i].username = app_credentials[j].username => i = j

\* C10: the audit history is append-only: no step of any method changes or
\* removes a record of rotation_history (the table or the in-memory list).
C10_AppendOnly ==
    [][/\ IsPrefix(history, history')
       /\ IsPrefix(rotation_history, rotation_history')]_vars

\* C10 witness: two records were written and a schedule was added since.
C10_Witness ==
    /\ Len(history) = 2
    /\ Len(rotation_history) = 1
    /\ app_credentials # <<>>

\* The (username, expires_at) pairs of the rows that expire less than
\* `days` days from now.
PairsWithin(rows, days) ==
    {<<rows[i].username, rows[i].expires_at>> :
        i \in {j \in 1..Len(rows) : rows[j].expires_at - now < days}}

ScanReturned == AttemptEnded("check_expired_credentials") /\ ret.value = "rows"

GeneratorEnded == AttemptEnded("generate_strong_password")

\* C12: every password the generator returns for a length of at least 12
\* holds a lowercase letter, an uppercase letter, a digit and a symbol of
\* "!@#$%^&*".
C12_ReturnedIsComposed ==
    (GeneratorEnded /\ ret.value = "password" /\ cur.length >= 12) =>
        /\ ret.length = cur.length
        /\ "a" \in ret.chars
        /\ "Z" \in ret.chars
        /\ "7" \in ret.chars
        /\ ret.chars \cap {"!", "*"} # {}

\* C12 witness: a password of length 12 is returned by a second attempt,
\* the first sample having missed a kind.
C12_Witness ==
    /\ GeneratorEnded
    /\ ret.value = "password"
    /\ cur.length = 12
    /\ cur.depth = 2

\* C13: called with a length that can never hold the four kinds (below 4),
\* the generator ends with GenerationFailed after a bounded number of
\* resamplings; it does not recurse until the stack is exhausted.
C13_EndsWithGenerationFailed ==
    (GeneratorEnded /\ cur.length < 4) => ret.value = "GenerationFailed"

\* C14: the cursor a rotation attempt acquires is closed on every way out
\* of the attempt (success, failed verification, a raising statement, the
\* retire statements and the audit INSERT included): when the attempt has
\* ended, no more cursors are open than before it.
C14_CursorReleased ==
    (pc = "done" /\ cur.op \in Rotations) =>
        open_cursors = pre.open_cursors

\* The text field contains the secret as a substring (or equals it).
Includes(field, secret) ==
    \E i \in 1..(Len(field) - Len(secret) + 1) :
        SubSeq(field, i, i + Len(secret) - 1) = secret

\* The passwords generate_strong_password has returned so far.
GeneratedSecrets == {FreshPassword(k) : k \in 0..(generated - 1)}

\* The text fields of the persisted and of the in-memory audit records.
AuditFields ==
    UNION {{history[i].username, history[i].rotation_type,
            history[i].status, history[i].notes} : i \in 1..Len(history)}
    \cup UNION {{rotation_history[i].username, rotation_history[i].status} :
                    i \in 1..Len(rotation_history)}

\* C15: no field of any audit record, in the rotation_history table or in
\* the in-memory history, equals or includes a password the generator
\* produced.
C15_NoSecretInAudit ==
    \A field \in AuditFields : \A secret \in GeneratedSecrets :
        ~Includes(field, secret)

\* Both kinds of rotation have been recorded, with two generated passwords.
C15_Witness ==
    /\ generated = 2
    /\ \E i \in 1..Len(history) : history[i].rotation_type = "password_rotation"
    /\ \E i \in 1..Len(history) :
            history[i].rotation_type = "dual_password_rotation"
    /\ Len(rotation_history) > 0

\* The backend state an attempt leaves when it failed inside the retire
\* sequence: the shadow user is complete (a generated password, every
\* grant) and was not renamed.  Only a finished shadow sequence gives a
\* user a generated password together with all grants, and a finished
\* retire sequence renames that user away.
LeftByFailedRetire(u, username) ==
    /\ Exists(u, TempUser(username))
    /\ u[TempUser(username)].password \in GeneratedSecrets
    /\ u[TempUser(username)].grants = AllGrants

\* The names that can log in and use the database in backend state u.
UsableNames(u) == {name \in DOMAIN u : Usable(u, name)}

\* C16: a dual rotation of p called again on the state a failed retire
\* sequence left (p revoked but present next to p_new, or p dropped and only
\* p_new present) either completes (p has the new password and its grants,
\* no p_new) or refuses and leaves the backend as it was; it never removes
\* the only usable user.
C16_ReinvocationSafe ==
    (AttemptEnded("rotate_with_dual_password")
        /\ LeftByFailedRetire(pre.users, cur.username)) =>
        /\ \/ /\ ret.value = "True"
              /\ Usable(users, cur.username)
              /\ Authenticates(users, cur.username, cur.new_password)
              /\ ~Exists(users, cur.temp_user)
           \/ /\ ret.value = "False"
              /\ users = pre.users
        /\ UsableNames(pre.users) # {} => UsableNames(users) # {}

\* C16 witness: the second dual rotation ended on a state where the first
\* one had revoked p's grants but not dropped p.
C16_Witness ==
    /\ AttemptEnded("rotate_with_dual_password")
    /\ LeftByFailedRetire(pre.users, cur.username)
    /\ Exists(pre.users, cur.username)
    /\ pre.users[cur.username].grants = {}
    /\ cur.new_password # pre.users[cur.temp_user].password

\* C17: the shadow user gets the grant set of the original, whatever that
\* set is: after a dual rotation of p that returned True, p holds the grants
\* it held before the rotation.
C17_GrantsPreserved ==
    (AttemptEnded("rotate_with_dual_password") /\ ret.value = "True"
        /\ Exists(pre.users, cur.username) /\ Exists(users, cur.username)) =>
        users[cur.username].grants = pre.users[cur.username].grants

\* A step inside one call of rotate_password.
SingleStep == cur.op = "rotate_password" /\ cur' = cur /\ pc' # pc

\* The ALTER of this attempt took effect: the user has the password this
\* attempt generated, which nothing else can have set.
Altered(u) == Authenticates(u, cur.username, cur.new_password)

\* C18: in a single rotation the success record is written and True is
\* returned only from the recording step, which is entered only after the
\* ALTER took effect and, when verification is requested, after the test
\* connection of the same attempt succeeded; an attempt whose ALTER failed
\* ends at once with False, without verification and without a record.
C18_SuccessOnlyAfterSteps ==
    [][SingleStep =>
        /\ pc' = "verify" => pc = "alter" /\ cur.verify /\ Altered(users')
        /\ pc' = "record" =>
              /\ Altered(users')
              /\ pc = IF cur.verify THEN "verify" ELSE "alter"
        /\ (Len(history') > Len(history) \/ ret'.value = "True") =>
              pc = "record" /\ Altered(users)
        /\ (pc = "alter" /\ ~Altered(users')) =>
              pc' = "done" /\ ret'.value = "False" /\ history' = history]_vars

\* C18 witness: a single rotation with verification returned True.
C18_Witness ==
    /\ AttemptEnded("rotate_password")
    /\ ret.value = "True"
    /\ cur.verify
    /\ Altered(users)
    /\ Len(history) = Len(pre.history) + 1

\* C19: no step of a single or dual rotation, on any outcome, touches
\* app_credentials; the table changes only in a step of schedule_rotation.
C19_ScheduleOnlyBySchedule ==
    [][/\ (cur.op \in Rotations \/ cur'.op \in Rotations) =>
              app_credentials' = app_credentials
       /\ app_credentials' # app_credentials =>
              \E username \in Usernames :
                  \E days_until_expire \in ScheduleDays \cup {DefaultDays} :
                      ScheduleRotation(username, days_until_expire)]_vars

\* C19 witness: a dual rotation returned True for a user that has an
\* expiry schedule, and the schedule is the one from before the call.
C19_Witness ==
    /\ AttemptEnded("rotate_with_dual_password")
    /\ ret.value = "True"
    /\ \E i \in 1..Len(app_credentials) :
            app_credentials[i].username = cur.username
    /\ app_credentials = pre.app_credentials

\* C20: a rotation of p, single or dual, on any outcome, leaves every other
\* user q that existed before the attempt as it was (existing, same
\* password, same grants), a q named p_new included.  Stated for the users
\* create_app_user made, which still have their initial password.
C20_OthersUntouched ==
    (pc = "done" /\ cur.op \in Rotations /\ Exists(pre.users, cur.username)) =>
        \A q \in DOMAIN pre.users \ {cur.username} :
            pre.users[q].password = InitialPassword =>
                Exists(users, q) /\ users[q] = pre.users[q]

====
